---------------------------- MODULE Spec2Model ----------------------------
(***************************************************************************)
(* State-machine model of the page-capture core of the PDP auditor         *)
(* (src/capture.py): capture_pdp and the helpers it calls.                 *)
(*                                                                         *)
(* The live page is an environment: every Playwright call either returns   *)
(* or raises, and the page's dialogs, triggers, bounding boxes and text    *)
(* are chosen by the environment.  The control flow (which call is made,   *)
(* which exception handler encloses it, what is written where) is that of  *)
(* the source.                                                             *)
(*                                                                         *)
(* Spec is one capture_pdp call, statement by statement.  SpecRuns is      *)
(* several runs side by side, started by the entry points (run_audit.py,   *)
(* app.py) or by a direct call.  SpecTrigger and SpecContainer are the two *)
(* functions of the section locator applied to the pages they may meet.    *)
(***************************************************************************)
EXTENDS Integers, Sequences, FiniteSets, TLC

(***************************************************************************)
(* Bounds of the model.                                                    *)
(***************************************************************************)
\* most overlay dialogs a loaded page shows at once
MaxDialogs == 2
\* number of selectors of a _click_first selector list that are modelled
NSel == 2
\* number of runs in flight at the same time
NRuns == 2
\* most elements of the page that match the selector list of _best_trigger
MaxMatches == 3
\* most ancestors of a trigger that are modelled
MaxDepth == 4

(***************************************************************************)
(* Program constants.                                                      *)
(***************************************************************************)
MaxPasses == 3
TextCap == 12000
MinClipSide == 50
MinContainerWidth == 600
SectionPad == 24
SectionMinH == 650
SectionMaxH == 980
DialogPad == 18
DialogMinH == 520
DialogMaxH == 980

Max(a, b) == IF a >= b THEN a ELSE b
Min(a, b) == IF a <= b THEN a ELSE b

(***************************************************************************)
(* Artifact keys and output paths (capture_pdp, lines 203-213).            *)
(***************************************************************************)
Keys == {"full_page", "details_view", "care_view", "size_chart_view"}
Sections == {"Details", "Care", "SizeChart"}

SectionKey(s) ==
    CASE s = "Details" -> "details_view"
      [] s = "Care" -> "care_view"
      [] s = "SizeChart" -> "size_chart_view"

FileName(k) ==
    CASE k = "full_page" -> "01_full_page.png"
      [] k = "details_view" -> "02_details_view.png"
      [] k = "care_view" -> "03_care_view.png"
      [] k = "size_chart_view" -> "04_size_chart_view.png"

Urls == {"https://shop.example/p/a"}

\* sha8: the first 8 hex digits of SHA-256 of the url (a function of the url)
sha8(u) ==
    CASE u = "https://shop.example/p/a" -> "eaf9d49b"
      [] u = "https://shop.example/p/b" -> "0f2ed2c9"

\* safe_mkdir (lines 14-15): os.makedirs(path, exist_ok=True)
safe_mkdir_skipped(exists) == exists
safe_mkdir(exists) == TRUE

OutRoot == "out"
OutDir(u) == <<OutRoot, sha8(u)>>
ShotsDir(u) == OutDir(u) \o <<"screenshots">>
Paths(u) == [k \in Keys |-> ShotsDir(u) \o <<FileName(k)>>]
NoPaths == [k \in {} |-> <<>>]

\* the same for any out_root (a path, as the sequence of its components)
OutDirIn(root, u) == root \o <<sha8(u)>>
PathsIn(root, u) == [k \in Keys |-> OutDirIn(root, u) \o <<"screenshots", FileName(k)>>]

(***************************************************************************)
(* Exceptions.  A Playwright call returns ("ok") or raises one of these.   *)
(* Every handler of the source is "except Exception".                      *)
(***************************************************************************)
ExceptionKinds == {"TimeoutError", "Error"}
Outcomes == {"ok"} \cup ExceptionKinds

ExceptTimeoutErrorOnly(e) == e = "TimeoutError"
ExceptException(e) == e \in {"TimeoutError", "Error"}

NoError == [step |-> "none", key |-> "none", kind |-> "none"]

(***************************************************************************)
(* The "with sync_playwright() as p" block: leaving it, normally or by an  *)
(* exception, stops the Playwright driver, and the driver shuts down the   *)
(* browsers it launched.                                                   *)
(***************************************************************************)
SyncPlaywrightExitLeavesBrowser(b) == b
SyncPlaywrightExit(b) == IF b = "open" THEN "closed" ELSE b

(***************************************************************************)
(* _clip_locator_bbox (lines 63-69) and _clip_to_bbox (lines 38-43).       *)
(***************************************************************************)
ClipToBBox(bbox) ==
    [x |-> Max(0, bbox.x), y |-> Max(0, bbox.y),
     width |-> Max(MinClipSide, bbox.width), height |-> Max(MinClipSide, bbox.height)]

PaddedBBoxNoMinHeight(bbox, pad, min_h, max_h) ==
    [x |-> Max(0, bbox.x - pad),
     y |-> Max(0, bbox.y - pad),
     width |-> bbox.width + pad * 2,
     height |-> Min(bbox.height + pad * 2, max_h)]
PaddedBBox(bbox, pad, min_h, max_h) ==
    [x |-> Max(0, bbox.x - pad),
     y |-> Max(0, bbox.y - pad),
     width |-> bbox.width + pad * 2,
     height |-> Min(Max(bbox.height + pad * 2, min_h), max_h)]

\* bounding boxes the page may report, degenerate ones included
BBoxes ==
    { [x |-> -40, y |-> -400, width |-> 0, height |-> 0],
      [x |-> 0, y |-> 0, width |-> 1440, height |-> 20000],
      [x |-> 10, y |-> 5, width |-> 12, height |-> 1],
      [x |-> 120, y |-> 1300, width |-> 700, height |-> 640] }

NoClip == [key |-> "none", target |-> "none", x |-> 0, y |-> 0, width |-> 0, height |-> 0]


(***************************************************************************)
(* _click_first (lines 18-29).  outs[i] is what happens at the i-th        *)
(* selector: no element, one of the three calls raises, or the click       *)
(* succeeds.  The result says whether an element was clicked and which     *)
(* exception, if any, left the function.                                   *)
(***************************************************************************)
SelOutcomes == {"absent", "count_raises", "scroll_raises", "click_raises", "clicked"}
SelectorRuns == [1..NSel -> SelOutcomes]
AllAbsent == [i \in 1..NSel |-> "absent"]

RECURSIVE ClickFirstFrom(_, _, _)
ClickFirstFrom(outs, i, e) ==
    IF i > Len(outs) THEN [clicked |-> FALSE, raised |-> "none"]
    ELSE IF outs[i] = "absent" THEN ClickFirstFrom(outs, i + 1, e)
    ELSE IF outs[i] = "clicked" THEN [clicked |-> TRUE, raised |-> "none"]
    ELSE IF ExceptException(e) THEN ClickFirstFrom(outs, i + 1, e)
    ELSE [clicked |-> FALSE, raised |-> e]

ClickFirst(outs, e) == ClickFirstFrom(outs, 1, e)

\* the possible results of a call, over what the page answers at each selector
ClickFirstResults(runs) ==
    { ClickFirst(x[1], x[2]) : x \in runs \X ExceptionKinds }

\* on any page; on a page where some selector matches; where none does
AnyClickResults == ClickFirstResults(SelectorRuns)
PresentClickResults == ClickFirstResults(SelectorRuns \ {AllAbsent})
AbsentClickResults == ClickFirstResults({AllAbsent})

(***************************************************************************)
(* _section_container_from_trigger (lines 76-104).  A chain lists, for the *)
(* six candidate locators in order, what the page answers: no element,     *)
(* no bounding box, a call that raises, or the width of the box.           *)
(***************************************************************************)
Absent == [kind |-> "absent", width |-> 0]
NoBox == [kind |-> "nobox", width |-> 0]
Raises == [kind |-> "raises", width |-> 0]
Box(w) == [kind |-> "box", width |-> w]

AncestorChains ==
    { <<Absent, Absent, Absent, Box(120), Box(120), Box(900)>>,
      <<Box(1440), Absent, Absent, Box(1440), Box(1440), Box(1440)>>,
      <<Absent, Absent, Absent, Box(120), NoBox, Box(300)>>,
      <<Absent, Box(599), Absent, Raises, Box(700), Box(700)>> }

RECURSIVE ContainerFrom(_, _, _)
ContainerFrom(chain, i, e) ==
    IF i > Len(chain) THEN "trigger"
    ELSE IF chain[i].kind = "raises"
         THEN (IF ExceptException(e) THEN "None" ELSE "raised")
    ELSE IF chain[i].kind \in {"absent", "nobox"} THEN ContainerFrom(chain, i + 1, e)
    ELSE IF chain[i].width >= MinContainerWidth THEN "container"
    ELSE ContainerFrom(chain, i + 1, e)

SectionContainerFromTrigger(chain, e) == ContainerFrom(chain, 1, e)

(***************************************************************************)
(* The possible results of one call of _clip_locator_bbox (lines 50-73):   *)
(* whether it returned True, the exception that left it (none, with the    *)
(* source's handlers), and the clip region handed to page.screenshot.      *)
(***************************************************************************)
Swallowed(e) == IF ExceptException(e) THEN "none" ELSE e

ClipFor(key, target, b, pad, min_h, max_h) ==
    LET c == ClipToBBox(PaddedBBox(b, pad, min_h, max_h))
    IN  [key |-> key, target |-> target,
         x |-> c.x, y |-> c.y, width |-> c.width, height |-> c.height]

ClipLocatorBBoxResults(key, target, pad, min_h, max_h) ==
    \* locator.count() == 0 (line 56), bounding_box() is None (line 60)
    { [ok |-> FALSE, raised |-> "none", clip |-> NoClip] }
    \* count(), scroll_into_view_if_needed() or bounding_box() raises (line 72)
    \cup { [ok |-> FALSE, raised |-> Swallowed(e), clip |-> NoClip] : e \in ExceptionKinds }
    \* the screenshot call of _clip_to_bbox succeeds (line 45)
    \cup { [ok |-> TRUE, raised |-> "none",
            clip |-> ClipFor(key, target, b, pad, min_h, max_h)] : b \in BBoxes }
    \* the screenshot call of _clip_to_bbox raises (line 46)
    \cup { [ok |-> FALSE, raised |-> Swallowed(x[2]),
            clip |-> ClipFor(key, target, x[1], pad, min_h, max_h)] :
           x \in BBoxes \X ExceptionKinds }

(***************************************************************************)
(* Inside the try block of a section view, once the trigger is there       *)
(* (lines 267-269, 301-303): resolve the container and clip it.            *)
(***************************************************************************)
NoClipResult(raised) == [ok |-> FALSE, raised |-> raised, clip |-> NoClip]

ContainerClipResults(key) ==
    UNION { LET c == SectionContainerFromTrigger(x[1], x[2])
            IN  IF c = "raised" THEN { NoClipResult(x[2]) }
                ELSE IF c = "None" THEN { NoClipResult("none") }
                \* container.count() raises or is 0, or the clip attempt
                ELSE { NoClipResult(Swallowed(x[2])), NoClipResult("none") } \cup
                     ClipLocatorBBoxResults(key, c, SectionPad,
                                            SectionMinH, SectionMaxH)
          : x \in AncestorChains \X ExceptionKinds }

(***************************************************************************)
(* "if not details_ok" / "if not care_ok" / "if not _clip_locator_bbox":   *)
(* the viewport capture is taken when the clipped one did not succeed.     *)
(***************************************************************************)
DetailsClipResults == ContainerClipResults("details_view")
CareClipResults == ContainerClipResults("care_view")

\* the clip of the dialog-like element found at line 341, by what it is
DialogClipResults ==
    [t \in {"size_dialog", "overlay_dialog"} |->
        ClipLocatorBBoxResults("size_chart_view", t, DialogPad, DialogMinH, DialogMaxH)]

NeedsViewportNever(ok) == FALSE
NeedsViewportAlways(ok) == TRUE
NeedsViewport(ok) == ~ok

(***************************************************************************)
(* Visible text (lines 256-260).  A string is modelled by the lengths of   *)
(* its leading whitespace, its core (first to last non-blank character)    *)
(* and its trailing whitespace; inner_text may also yield None.            *)
(***************************************************************************)
RawTexts ==
    { [none |-> TRUE, lead |-> 0, core |-> 0, trail |-> 0],
      [none |-> FALSE, lead |-> 1, core |-> 40, trail |-> 2],
      [none |-> FALSE, lead |-> 2, core |-> 15000, trail |-> 7] }

\* what page.inner_text did: it raised, or returned the text
NotExtracted == [raised |-> FALSE, text |-> [none |-> TRUE, lead |-> 0, core |-> 0, trail |-> 0]]
InnerTextAnswers ==
    { [raised |-> FALSE, text |-> t] : t \in RawTexts }
    \cup { [raised |-> TRUE, text |-> NotExtracted.text] }

EmptyText == [none |-> FALSE, lead |-> 0, core |-> 0, trail |-> 0]
OrEmpty(t) == IF t.none \/ t.lead + t.core + t.trail = 0 THEN EmptyText ELSE t
Strip(t) == t.core
Slice(n, cap) == Min(n, cap)
Str(n) == [kind |-> "str", len |-> n]
Unset == [kind |-> "unset", len |-> 0]

VisibleTextUncapped(raised, t) ==
    IF raised THEN Str(0) ELSE Str(Strip(OrEmpty(t)))
VisibleText(raised, t) ==
    IF raised THEN Str(0) ELSE Str(Slice(Strip(OrEmpty(t)), TextCap))

(***************************************************************************)
(* What a click or key press that closes something does to the dialogs:    *)
(* nothing, one overlay dialog less, or the size-chart dialog closed.      *)
(***************************************************************************)
CloseOne(d, s) ==
    { <<d, s>> } \cup (IF d > 0 THEN { <<d - 1, s>> } ELSE {})
                 \cup (IF s THEN { <<d, FALSE>> } ELSE {})

\* interacting with the page may raise a new overlay
AfterInteraction(d) == { d } \cup (IF d < MaxDialogs THEN { d + 1 } ELSE {})

(***************************************************************************)
(* dismiss_overlays, the end of a pass (lines 158-190).                    *)
(***************************************************************************)
\* "if dismissed: continue" (lines 158-159)
ContinuesAlways(d) == TRUE
Continues(d) == d

\* has_dialog (lines 161-164): False when count() raises
HasDialogAssumed(count, d, s) == TRUE
HasDialog(count, d, s) == count = "ok" /\ (d > 0 \/ s)

\* the removal script (lines 168-187): every [role="dialog"] element, the
\* size-chart dialog included, is removed from the document
RemoveOverlaysModalOnly(d, s) == <<d, FALSE>>
RemoveOverlays(d, s) == <<0, FALSE>>

\* how the last-resort part of a dismiss_overlays call ended
LastResorts == {"none", "no_dialog", "count_raised", "has_dialog", "removed",
                "evaluate_raised"}

(***************************************************************************)
(* Actuation of the section triggers (lines 242, 290, 322-332) and the     *)
(* settle waits that follow them (lines 248, 295, 336).                    *)
(***************************************************************************)
\* the click of the trigger of section s went through
Actuated(c, s, clicked) == IF clicked THEN [c EXCEPT ![s] = @ + 1] ELSE c
\* ... and no settle wait has followed it yet
Unsettled(w, s, clicked) == IF clicked THEN [w EXCEPT ![s] = FALSE] ELSE w

\* a variant without the settle wait
WaitForTimeoutSkipped(w, s) == w
\* page.wait_for_timeout(...) has been called after the click of section s
WaitForTimeout(w, s) == [w EXCEPT ![s] = TRUE]

(***************************************************************************)
(* State.                                                                  *)
(***************************************************************************)
VARIABLES
    url,           \* the argument of capture_pdp
    paths,         \* key -> path (lines 208-213); empty before allocation
    priorFiles,    \* keys whose file was in shots_dir before this run
    dirExists,     \* whether shots_dir exists
    files,         \* keys whose file is in shots_dir
    written,       \* key -> number of successful screenshot calls of this run
    mode,          \* key -> capture mode of the last successful screenshot
    lastClip,      \* the clip region last handed to page.screenshot
    lastFallback,  \* the viewport fallback of the last section capture, if it
                   \* took one: its key, and whether a scroll was issued between
                   \* the decision to fall back and the viewport screenshot
    pc,            \* the statement of capture_pdp / dismiss_overlays to run next
    ret,           \* where the running dismiss_overlays call returns to
    pass,          \* loop index of dismiss_overlays (line 113)
    dismissed,     \* local of dismiss_overlays (line 114)
    lastResort,    \* how lines 161-189 of the running dismiss_overlays call went
    browser,       \* "none", "open" or "closed"
    error,         \* the exception that left capture_pdp
    gotoCount,     \* number of page.goto calls
    visible_text,  \* local of capture_pdp (lines 256-260)
    inner_text,    \* what page.inner_text("body") did (line 257)
    bundle,        \* the returned payload (lines 352-359)
    trig,          \* section -> whether the page has a trigger for it
    dialogs,       \* number of overlay dialogs on the page
    sizeDialog,    \* whether the size-chart dialog is on the page
    sizeOpened,    \* whether the size-chart click opened a dialog
    clicks,        \* section -> number of clicks of its trigger that went through
    settled,       \* section -> no click of its trigger since the last settle wait
    sessions,      \* run -> the caller, url and progress of a run in flight
    doc,           \* the elements matching a section name, in document order
    trigger,       \* what _best_trigger(...).first resolves to
    ancestry,      \* the trigger and its ancestors, nearest first
    container      \* what _section_container_from_trigger returned

\* the state of one capture_pdp call
captureVars == <<url, paths, priorFiles, dirExists, files, written, mode, lastClip,
                 lastFallback,
                 pc, ret, pass, dismissed, lastResort, browser, error, gotoCount,
                 visible_text, inner_text, bundle, trig, dialogs, sizeDialog,
                 sizeOpened, clicks, settled>>
\* the state of the section locator taken alone
locateVars == <<doc, trigger, ancestry, container>>

vars == <<captureVars, sessions, locateVars>>

\* what no step of a capture_pdp call changes
callVars == <<url, priorFiles, sessions, locateVars>>
clickVars == <<clicks, settled>>
runVars == <<callVars, clickVars>>
fsVars == <<files, written, mode, lastClip, lastFallback>>
loopVars == <<ret, pass, dismissed, lastResort>>
textVars == <<visible_text, inner_text>>
pageVars == <<trig, dialogs, sizeDialog, sizeOpened>>

NoFallback == [key |-> "none", scrolled |-> FALSE]

NoBundle == [url |-> "", run_id |-> "", out_dir |-> <<>>, shots_dir |-> <<>>,
             paths |-> NoPaths, visible_text |-> Unset]

RunIds == 1..NRuns

NoSession == [caller |-> "none", url |-> "", region |-> "none", pc |-> "idle",
              written |-> {}, stages |-> <<>>, pdf |-> FALSE, error |-> "none",
              locale |-> "none", region_key |-> "none"]
NoTrigger == [state |-> "unset", at |-> 0]
NoContainer == [state |-> "unset", at |-> 0]

NoRuns == sessions = [r \in RunIds |-> NoSession]
NoLocate ==
    /\ doc = <<>>
    /\ trigger = NoTrigger
    /\ ancestry = <<>>
    /\ container = NoContainer

CaptureInit ==
    /\ url \in Urls
    /\ paths = NoPaths
    /\ priorFiles \in {{}, Keys}
    /\ dirExists = (priorFiles # {})
    /\ files = priorFiles
    /\ written = [k \in Keys |-> 0]
    /\ mode = [k \in Keys |-> "none"]
    /\ lastClip = NoClip
    /\ lastFallback = NoFallback
    /\ pc = "start"
    /\ ret = "none"
    /\ pass = 0
    /\ dismissed = FALSE
    /\ lastResort = "none"
    /\ browser = "none"
    /\ error = NoError
    /\ gotoCount = 0
    /\ visible_text = Unset
    /\ inner_text = NotExtracted
    /\ bundle = NoBundle
    /\ trig = [s \in Sections |-> FALSE]
    /\ dialogs = 0
    /\ sizeDialog = FALSE
    /\ sizeOpened = FALSE
    /\ clicks = [s \in Sections |-> 0]
    /\ settled = [s \in Sections |-> TRUE]

Init == CaptureInit /\ NoRuns /\ NoLocate

(***************************************************************************)
(* Building blocks of the actions.                                         *)
(***************************************************************************)
\* an exception leaves capture_pdp through the with block (line 215)
Raise(step, key, e) ==
    /\ pc' = "raised"
    /\ error' = [step |-> step, key |-> key, kind |-> e]
    /\ browser' = SyncPlaywrightExit(browser)

Uncaught(o) == o # "ok" /\ ~ExceptException(o)

\* the first exception, of a sequence of guarded calls, that no handler catches
RECURSIVE FirstUncaught(_)
FirstUncaught(os) ==
    IF os = <<>> THEN "none"
    ELSE IF Uncaught(Head(os)) THEN Head(os)
    ELSE FirstUncaught(Tail(os))

\* a call of dismiss_overlays that returns to label r
CallDismiss(r) ==
    /\ pc' = "dismiss_close"
    /\ ret' = r
    /\ pass' = 0
    /\ dismissed' = FALSE
    /\ lastResort' = "none"

Jump(label) == pc' = label /\ UNCHANGED loopVars

\* page.screenshot(path=paths[k], ...) succeeded in mode m
WriteShot(st, k, m) ==
    [files |-> st.files \cup {k},
     written |-> [st.written EXCEPT ![k] = @ + 1],
     mode |-> [st.mode EXCEPT ![k] = m]]

FS == [files |-> files, written |-> written, mode |-> mode]

SetFS(st) ==
    /\ files' = st.files
    /\ written' = st.written
    /\ mode' = st.mode

(***************************************************************************)
(* capture_pdp, lines 203-213: run id, directories, paths.                 *)
(***************************************************************************)
\* a variant that steps aside when the directory is already there
AllocateAvoidingExisting ==
    /\ pc = "start"
    /\ dirExists' = safe_mkdir(dirExists)
    /\ paths' = (IF dirExists
                 THEN [k \in Keys |-> OutDir(url) \o <<"retry", "screenshots", FileName(k)>>]
                 ELSE Paths(url))
    /\ pc' = "launch"
    /\ UNCHANGED <<runVars, fsVars, loopVars, browser, error, gotoCount,
                   textVars, bundle, pageVars>>
Allocate ==
    /\ pc = "start"
    /\ dirExists' = safe_mkdir(dirExists)
    /\ paths' = Paths(url)
    /\ pc' = "launch"
    /\ UNCHANGED <<runVars, fsVars, loopVars, browser, error, gotoCount,
                   textVars, bundle, pageVars>>

(***************************************************************************)
(* Lines 215-218: start Playwright, launch the browser, open a page.       *)
(***************************************************************************)
LaunchSteps == {"sync_playwright", "launch", "new_context", "new_page"}

Launch ==
    /\ pc = "launch"
    /\ \E f \in {"none"} \cup LaunchSteps, e \in ExceptionKinds :
         IF f = "none"
         THEN /\ browser' = "open"
              /\ pc' = "goto"
              /\ error' = error
         ELSE /\ browser' = SyncPlaywrightExit(
                               IF f \in {"new_context", "new_page"}
                               THEN "open" ELSE "none")
              /\ pc' = "raised"
              /\ error' = [step |-> f, key |-> "none", kind |-> e]
    /\ UNCHANGED <<runVars, paths, dirExists, fsVars, loopVars, gotoCount,
                   textVars, bundle, pageVars>>

(***************************************************************************)
(* Lines 220-221: navigate, then the first dismiss_overlays call.          *)
(***************************************************************************)
Navigate ==
    /\ pc = "goto"
    /\ gotoCount' = gotoCount + 1
    /\ \E o \in Outcomes :
         IF o = "ok"
         THEN /\ trig' \in [Sections -> BOOLEAN]
              /\ dialogs' \in 0..MaxDialogs
              /\ CallDismiss("show_more")
              /\ UNCHANGED <<browser, error>>
         ELSE /\ Raise("goto", "none", o)
              /\ UNCHANGED <<trig, dialogs, loopVars>>
    /\ UNCHANGED <<runVars, paths, dirExists, fsVars, textVars, bundle,
                   sizeDialog, sizeOpened>>

(***************************************************************************)
(* dismiss_overlays, one pass of its loop, step by step.                  *)
(***************************************************************************)
\* lines 114-131: the close affordances
DismissClose ==
    /\ pc = "dismiss_close"
    /\ \E r \in AnyClickResults :
             IF r.raised # "none"
             THEN /\ Raise("dismiss_overlays", "none", r.raised)
                  /\ UNCHANGED <<dismissed, dialogs, sizeDialog>>
             ELSE /\ dismissed' = r.clicked
                  /\ \E d \in (IF r.clicked THEN CloseOne(dialogs, sizeDialog)
                               ELSE {<<dialogs, sizeDialog>>}) :
                       dialogs' = d[1] /\ sizeDialog' = d[2]
                  /\ pc' = "dismiss_cta"
                  /\ UNCHANGED <<browser, error>>
    /\ UNCHANGED <<runVars, paths, dirExists, fsVars, ret, pass, lastResort,
                   gotoCount, textVars, bundle, trig, sizeOpened>>

\* lines 132-146: the consent / marketing buttons
DismissCta ==
    /\ pc = "dismiss_cta"
    /\ \E r \in AnyClickResults :
             IF r.raised # "none"
             THEN /\ Raise("dismiss_overlays", "none", r.raised)
                  /\ UNCHANGED <<dismissed, dialogs, sizeDialog>>
             ELSE /\ dismissed' = (dismissed \/ r.clicked)
                  /\ \E d \in (IF r.clicked THEN CloseOne(dialogs, sizeDialog)
                               ELSE {<<dialogs, sizeDialog>>}) :
                       dialogs' = d[1] /\ sizeDialog' = d[2]
                  /\ pc' = "dismiss_escape"
                  /\ UNCHANGED <<browser, error>>
    /\ UNCHANGED <<runVars, paths, dirExists, fsVars, ret, pass, lastResort,
                   gotoCount, textVars, bundle, trig, sizeOpened>>

\* lines 148-156: the Escape key and the settle wait
DismissEscape ==
    /\ pc = "dismiss_escape"
    /\ \E c \in { [raised |-> FirstUncaught(<<x[1], x[2]>>), pressed |-> x[1] = "ok"]
                  : x \in Outcomes \X Outcomes } :
         \* x[1]: keyboard.press, x[2]: wait_for_timeout
         IF c.raised # "none"
         THEN /\ Raise("dismiss_overlays", "none", c.raised)
              /\ UNCHANGED <<dialogs, sizeDialog>>
         ELSE /\ \E d \in (IF c.pressed THEN CloseOne(dialogs, sizeDialog)
                           ELSE {<<dialogs, sizeDialog>>}) :
                   dialogs' = d[1] /\ sizeDialog' = d[2]
              /\ pc' = "dismiss_check"
              /\ UNCHANGED <<browser, error>>
    /\ UNCHANGED <<runVars, paths, dirExists, fsVars, loopVars, gotoCount,
                   textVars, bundle, trig, sizeOpened>>

\* lines 158-164: continue with the next pass, or look for a dialog
DismissCheck ==
    /\ pc = "dismiss_check"
    /\ IF Continues(dismissed)
       THEN /\ IF pass + 1 < MaxPasses
               THEN /\ pc' = "dismiss_close"
                    /\ pass' = pass + 1
                    /\ dismissed' = FALSE
               ELSE /\ pc' = "dismiss_return"
                    /\ UNCHANGED <<pass, dismissed>>
            /\ UNCHANGED <<lastResort, browser, error>>
       ELSE \E count \in Outcomes :
              \* count: page.locator("[role='dialog']").count()
              IF Uncaught(count)
              THEN /\ Raise("dismiss_overlays", "none", count)
                   /\ UNCHANGED <<pass, dismissed, lastResort>>
              ELSE /\ IF HasDialog(count, dialogs, sizeDialog)
                      THEN pc' = "dismiss_remove" /\ lastResort' = "has_dialog"
                      ELSE /\ pc' = "dismiss_return"
                           /\ lastResort' = (IF count = "ok" THEN "no_dialog"
                                             ELSE "count_raised")
                   /\ UNCHANGED <<pass, dismissed, browser, error>>
    /\ UNCHANGED <<runVars, paths, dirExists, fsVars, ret, gotoCount,
                   textVars, bundle, pageVars>>

\* lines 166-190: the last resort, then break
DismissRemove ==
    /\ pc = "dismiss_remove"
    /\ \E evaluate \in Outcomes :
         IF Uncaught(evaluate)
         THEN /\ Raise("dismiss_overlays", "none", evaluate)
              /\ UNCHANGED <<dialogs, sizeDialog, lastResort>>
         ELSE /\ IF evaluate = "ok"
                 THEN /\ dialogs' = RemoveOverlays(dialogs, sizeDialog)[1]
                      /\ sizeDialog' = RemoveOverlays(dialogs, sizeDialog)[2]
                      /\ lastResort' = "removed"
                 ELSE /\ UNCHANGED <<dialogs, sizeDialog>>
                      /\ lastResort' = "evaluate_raised"
              /\ pc' = "dismiss_return"
              /\ UNCHANGED <<browser, error>>
    /\ UNCHANGED <<runVars, paths, dirExists, fsVars, ret, pass, dismissed,
                   gotoCount, textVars, bundle, trig, sizeOpened>>

\* lines 190-192: dismiss_overlays returns to its caller
DismissReturn ==
    /\ pc = "dismiss_return"
    /\ pc' = ret
    /\ ret' = "none"
    /\ pass' = 0
    /\ dismissed' = FALSE
    /\ lastResort' = "none"
    /\ UNCHANGED <<runVars, paths, dirExists, fsVars, browser, error, gotoCount,
                   textVars, bundle, pageVars>>

(***************************************************************************)
(* Lines 224-235: expand "Show more / Read more".                          *)
(***************************************************************************)
ShowMore ==
    /\ pc = "show_more"
    /\ \E r \in AnyClickResults :
             IF r.raised # "none"
             THEN /\ Raise("show_more", "none", r.raised)
                  /\ UNCHANGED <<dialogs, loopVars>>
             ELSE /\ dialogs' \in (IF r.clicked THEN AfterInteraction(dialogs)
                                   ELSE {dialogs})
                  /\ Jump("expand_details")
                  /\ UNCHANGED <<browser, error>>
    /\ UNCHANGED <<runVars, paths, dirExists, fsVars, gotoCount,
                   textVars, bundle, trig, sizeDialog, sizeOpened>>

(***************************************************************************)
(* Lines 238-246: expand the Details accordion, then dismiss_overlays.     *)
(***************************************************************************)
ExpandDetails ==
    /\ pc = "expand_details"
    /\ \E c \in { LET found == x[1] = "ok" /\ trig["Details"]
                    IN  [raised |-> FirstUncaught(IF found THEN <<x[1], x[2], x[3]>>
                                                  ELSE <<x[1]>>),
                         clicked |-> found /\ x[2] = "ok" /\ x[3] = "ok"]
                  : x \in Outcomes \X Outcomes \X Outcomes } :
         \* x[1]: count, x[2]: scroll_into_view_if_needed, x[3]: click
             IF c.raised # "none"
             THEN /\ Raise("expand_details", "none", c.raised)
                  /\ UNCHANGED <<dialogs, loopVars, clickVars>>
             ELSE /\ dialogs' \in (IF c.clicked THEN AfterInteraction(dialogs)
                                   ELSE {dialogs})
                  /\ clicks' = Actuated(clicks, "Details", c.clicked)
                  /\ settled' = Unsettled(settled, "Details", c.clicked)
                  /\ CallDismiss("settle")
                  /\ UNCHANGED <<browser, error>>
    /\ UNCHANGED <<callVars, paths, dirExists, fsVars, gotoCount,
                   textVars, bundle, trig, sizeDialog, sizeOpened>>

(***************************************************************************)
(* Lines 247-250: settle wait before the baseline.                         *)
(***************************************************************************)
\* a variant that goes on without the baseline screenshot
SettleSkipsBaseline ==
    /\ pc = "settle"
    /\ \E raised \in { FirstUncaught(<<wait>>) : wait \in Outcomes } :
         IF raised # "none"
         THEN Raise("settle", "none", raised)
         ELSE pc' = "visible_text" /\ UNCHANGED <<browser, error>>
    /\ settled' = WaitForTimeout(settled, "Details")
    /\ UNCHANGED <<callVars, clicks, paths, dirExists, fsVars, loopVars, gotoCount,
                   textVars, bundle, pageVars>>
Settle ==
    /\ pc = "settle"
    /\ \E raised \in { FirstUncaught(<<wait>>) : wait \in Outcomes } :
         IF raised # "none"
         THEN Raise("settle", "none", raised)
         ELSE pc' = "baseline" /\ UNCHANGED <<browser, error>>
    /\ settled' = WaitForTimeout(settled, "Details")
    /\ UNCHANGED <<callVars, clicks, paths, dirExists, fsVars, loopVars, gotoCount,
                   textVars, bundle, pageVars>>

(***************************************************************************)
(* Line 253: the full-page baseline screenshot (no handler around it).     *)
(***************************************************************************)
\* a variant with full_page=False
BaselineViewport ==
    /\ pc = "baseline"
    /\ \E shot \in Outcomes :
         IF shot = "ok"
         THEN /\ SetFS(WriteShot(FS, "full_page", "viewport"))
              /\ pc' = "visible_text"
              /\ UNCHANGED <<browser, error>>
         ELSE /\ Raise("screenshot", "full_page", shot)
              /\ UNCHANGED <<files, written, mode>>
    /\ UNCHANGED <<runVars, paths, dirExists, lastClip, lastFallback, loopVars, gotoCount,
                   textVars, bundle, pageVars>>
Baseline ==
    /\ pc = "baseline"
    /\ \E shot \in Outcomes :
         IF shot = "ok"
         THEN /\ SetFS(WriteShot(FS, "full_page", "full_page"))
              /\ pc' = "visible_text"
              /\ UNCHANGED <<browser, error>>
         ELSE /\ Raise("screenshot", "full_page", shot)
              /\ UNCHANGED <<files, written, mode>>
    /\ UNCHANGED <<runVars, paths, dirExists, lastClip, lastFallback, loopVars, gotoCount,
                   textVars, bundle, pageVars>>

(***************************************************************************)
(* Lines 256-263: the visible text excerpt, then dismiss_overlays.         *)
(***************************************************************************)
ExtractText ==
    /\ pc = "visible_text"
    /\ \E a \in InnerTextAnswers, e \in ExceptionKinds :
         IF a.raised /\ ~ExceptException(e)
         THEN /\ Raise("inner_text", "none", e)
              /\ UNCHANGED <<textVars, loopVars>>
         ELSE /\ inner_text' = a
              /\ visible_text' = VisibleText(a.raised, a.text)
              /\ CallDismiss("details_view")
              /\ UNCHANGED <<browser, error>>
    /\ UNCHANGED <<runVars, paths, dirExists, fsVars, gotoCount, bundle,
                   pageVars>>

(***************************************************************************)
(* What the fallback does before its viewport screenshot.                  *)
(***************************************************************************)
\* lines 344, 346, 348: nothing
NoScroll == [issued |-> FALSE, raised |-> "none"]

\* lines 274-278: the trigger, if count() finds it, is scrolled into view
TriggerScrollResults(present) ==
    { LET found == x[1] = "ok" /\ present
      IN  [issued |-> found,
           raised |-> FirstUncaught(IF found THEN <<x[1], x[2]>> ELSE <<x[1]>>)]
      : x \in Outcomes \X Outcomes }

\* lines 309-312: the page is scrolled down by one and a half viewports
WheelResults ==
    { [issued |-> TRUE, raised |-> FirstUncaught(<<w>>)] : w \in Outcomes }

(***************************************************************************)
(* The capture of one section key, given the result r of its clip attempt: *)
(* the clipped screenshot if it succeeded, else the viewport fallback      *)
(* (_shot_viewport, lines 32-33, no handler around it), then on to `next'  *)
(* (through a dismiss_overlays call when viaDismiss).                      *)
(***************************************************************************)
CaptureSection(k, r, scroll, shot, next, viaDismiss) ==
    LET st1 == IF r.ok THEN WriteShot(FS, k, "clip") ELSE FS
        Continue == IF viaDismiss THEN CallDismiss(next) ELSE Jump(next)
        scrollRaised == scroll.raised
    IN  /\ lastClip' = (IF r.clip # NoClip THEN r.clip ELSE lastClip)
        /\ lastFallback' = (IF r.raised = "none" /\ NeedsViewport(r.ok)
                            THEN [key |-> k, scrolled |-> scroll.issued]
                            ELSE NoFallback)
        /\ IF r.raised # "none"
           THEN /\ Raise("clip", k, r.raised)
                /\ SetFS(st1)
                /\ UNCHANGED loopVars
           ELSE IF ~NeedsViewport(r.ok)
           THEN /\ SetFS(st1)
                /\ Continue
                /\ UNCHANGED <<browser, error>>
           ELSE IF scrollRaised # "none"
           THEN /\ Raise("fallback_scroll", k, scrollRaised)
                /\ SetFS(st1)
                /\ UNCHANGED loopVars
           ELSE IF shot = "ok"
           THEN /\ SetFS(WriteShot(st1, k, "viewport"))
                /\ Continue
                /\ UNCHANGED <<browser, error>>
           ELSE /\ Raise("shot_viewport", k, shot)
                /\ SetFS(st1)
                /\ UNCHANGED loopVars

(***************************************************************************)
(* Lines 264-282: the Details view, then dismiss_overlays.                 *)
(***************************************************************************)
DetailsView ==
    /\ pc = "details_view"
    /\ \E r \in { NoClipResult(Swallowed(e)) : e \in ExceptionKinds }
                \cup (IF trig["Details"] THEN DetailsClipResults
                      ELSE { NoClipResult("none") }),
          scroll \in TriggerScrollResults(trig["Details"]),
          shot \in Outcomes :
         \* r: details_trigger.count() raises; else the clip of the container,
         \* or no trigger; scroll: count and scroll of lines 275-276
         CaptureSection("details_view", r, scroll, shot, "care_expand", TRUE)
    /\ UNCHANGED <<runVars, paths, dirExists, gotoCount, textVars, bundle,
                   pageVars>>

(***************************************************************************)
(* Lines 283-299: find and expand the Care trigger.  When the trigger is   *)
(* there and scrolled to, dismiss_overlays runs and the clip follows;      *)
(* otherwise care_ok stays False and the fallback (lines 307-313) runs.    *)
(***************************************************************************)
CareExpand ==
    /\ pc = "care_expand"
    /\ \E c \in { LET found == x[1] = "ok" /\ trig["Care"]
                    IN  [reached |-> found /\ x[2] = "ok",
                         raised |-> IF ~found THEN Swallowed(x[1])
                                    ELSE IF x[2] # "ok" THEN Swallowed(x[2])
                                    ELSE FirstUncaught(<<x[3], x[4]>>),
                         clicked |-> x[3] = "ok"]
                  : x \in Outcomes \X Outcomes \X Outcomes \X Outcomes } :
         \* x[1]: count, x[2]: scroll_into_view_if_needed, x[3]: click,
         \* x[4]: wait_for_timeout
             IF c.reached
             THEN IF c.raised # "none"
                  THEN /\ Raise("care_expand", "care_view", c.raised)
                       /\ UNCHANGED <<dialogs, fsVars, loopVars, clickVars>>
                  ELSE /\ dialogs' \in (IF c.clicked THEN AfterInteraction(dialogs)
                                        ELSE {dialogs})
                       /\ clicks' = Actuated(clicks, "Care", c.clicked)
                       /\ settled' = WaitForTimeout(
                                         Unsettled(settled, "Care", c.clicked), "Care")
                       /\ CallDismiss("care_view")
                       /\ UNCHANGED <<fsVars, browser, error>>
             ELSE /\ \E wheel \in WheelResults, shot \in Outcomes :
                       CaptureSection("care_view", NoClipResult(c.raised),
                                      wheel, shot, "scroll_top", FALSE)
                  /\ UNCHANGED <<dialogs, clickVars>>
    /\ UNCHANGED <<callVars, paths, dirExists, gotoCount, textVars, bundle,
                   trig, sizeDialog, sizeOpened>>

(***************************************************************************)
(* Lines 301-313: the Care view.                                           *)
(***************************************************************************)
CareView ==
    /\ pc = "care_view"
    /\ \E r \in CareClipResults, wheel \in WheelResults, shot \in Outcomes :
         \* wheel: page.mouse.wheel of line 310
         CaptureSection("care_view", r, wheel, shot, "scroll_top", FALSE)
    /\ UNCHANGED <<runVars, paths, dirExists, gotoCount, textVars, bundle,
                   pageVars>>

(***************************************************************************)
(* Lines 316-320: scroll to the top, then dismiss_overlays.                *)
(***************************************************************************)
ScrollTop ==
    /\ pc = "scroll_top"
    /\ \E raised \in { FirstUncaught(<<o>>) : o \in Outcomes } :
         IF raised # "none"
         THEN Raise("scroll_top", "size_chart_view", raised) /\ UNCHANGED loopVars
         ELSE CallDismiss("size_chart_open") /\ UNCHANGED <<browser, error>>
    /\ UNCHANGED <<runVars, paths, dirExists, fsVars, gotoCount, textVars,
                   bundle, pageVars>>

(***************************************************************************)
(* Lines 322-339 and 347-348: click the size chart / size guide link.      *)
(* If something was clicked: settle wait and dismiss_overlays; if not: the *)
(* viewport capture.                                                       *)
(***************************************************************************)
SizeChartOpen ==
    /\ pc = "size_chart_open"
    /\ \E r \in (IF trig["SizeChart"] THEN PresentClickResults
                  ELSE AbsentClickResults),
          waitRaised \in { FirstUncaught(<<w>>) : w \in Outcomes },
          shot \in Outcomes :
         LET opened == r.clicked
         IN  IF r.raised # "none" \/ (opened /\ waitRaised # "none")
             THEN /\ Raise("size_chart_open", "size_chart_view",
                           IF r.raised # "none" THEN r.raised ELSE waitRaised)
                  /\ UNCHANGED <<sizeDialog, sizeOpened, fsVars, loopVars, clickVars>>
             ELSE IF opened
             THEN /\ sizeDialog' \in BOOLEAN
                  /\ sizeOpened' = sizeDialog'
                  /\ clicks' = Actuated(clicks, "SizeChart", opened)
                  /\ settled' = WaitForTimeout(
                                    Unsettled(settled, "SizeChart", opened), "SizeChart")
                  /\ CallDismiss("size_chart_view")
                  /\ UNCHANGED <<fsVars, browser, error>>
             ELSE /\ CaptureSection("size_chart_view", NoClipResult("none"),
                                    NoScroll, shot, "browser_close", FALSE)
                  /\ UNCHANGED <<sizeDialog, sizeOpened, clickVars>>
    /\ UNCHANGED <<callVars, paths, dirExists, gotoCount, textVars, bundle,
                   trig, dialogs>>

(***************************************************************************)
(* Lines 341-346: the size chart view: the first dialog-like element, if   *)
(* any, clipped; else the viewport.  dialog.count() has no handler.        *)
(***************************************************************************)
DialogTargets ==
    (IF sizeDialog THEN {"size_dialog"} ELSE {})
    \cup (IF dialogs > 0 THEN {"overlay_dialog"} ELSE {})

SizeChartView ==
    /\ pc = "size_chart_view"
    /\ \E count \in Outcomes, shot \in Outcomes :
         IF count # "ok"
         THEN /\ Raise("dialog_count", "size_chart_view", count)
              /\ UNCHANGED <<fsVars, loopVars>>
         ELSE \E r \in (IF DialogTargets = {} THEN { NoClipResult("none") }
                        ELSE UNION { DialogClipResults[t] : t \in DialogTargets }) :
                CaptureSection("size_chart_view", r, NoScroll, shot,
                               "browser_close", FALSE)
    /\ UNCHANGED <<runVars, paths, dirExists, gotoCount, textVars, bundle,
                   pageVars>>

(***************************************************************************)
(* Line 350: browser.close().                                              *)
(***************************************************************************)
BrowserClose ==
    /\ pc = "browser_close"
    /\ \E o \in Outcomes :
         IF o = "ok"
         THEN browser' = "closed" /\ pc' = "exit" /\ error' = error
         ELSE Raise("browser_close", "none", o)
    /\ UNCHANGED <<runVars, paths, dirExists, fsVars, loopVars, gotoCount,
                   textVars, bundle, pageVars>>

(***************************************************************************)
(* Lines 215 and 352-359: leave the with block and return the bundle.      *)
(***************************************************************************)
Return ==
    /\ pc = "exit"
    /\ browser' = SyncPlaywrightExit(browser)
    /\ bundle' = [url |-> url, run_id |-> sha8(url), out_dir |-> OutDir(url),
                  shots_dir |-> ShotsDir(url), paths |-> paths,
                  visible_text |-> visible_text]
    /\ pc' = "returned"
    /\ UNCHANGED <<runVars, paths, dirExists, fsVars, loopVars, error,
                   gotoCount, textVars, pageVars>>

Next ==
    \/ Allocate
    \/ Launch
    \/ Navigate
    \/ DismissClose
    \/ DismissCta
    \/ DismissEscape
    \/ DismissCheck
    \/ DismissRemove
    \/ DismissReturn
    \/ ShowMore
    \/ ExpandDetails
    \/ Settle
    \/ Baseline
    \/ ExtractText
    \/ DetailsView
    \/ CareExpand
    \/ CareView
    \/ ScrollTop
    \/ SizeChartOpen
    \/ SizeChartView
    \/ BrowserClose
    \/ Return

Spec == Init /\ [][Next]_vars

(***************************************************************************)
(* Runs side by side.  A run is started by run_audit.main, by              *)
(* app.run_audit, or by a direct call capture_pdp(url); what matters of    *)
(* capture_pdp here is the directory it allocates and the files its        *)
(* screenshot calls write, in the order of the program.                    *)
(***************************************************************************)
EntryPoints == {"main", "run_audit"}
Callers == EntryPoints \cup {"capture_pdp"}
RunUrls == {"https://shop.example/p/a", "https://shop.example/p/b"}

\* the parameters of capture_pdp (capture.py, line 202)
Params == {"url", "out_root"}

\* the keyword arguments of the call (run_audit.py line 19, app.py lines 64-68)
CallKeywords(caller) ==
    CASE caller = "main" -> {"locale"}
      [] caller = "run_audit" -> {"out_root", "locale"}
      [] caller = "capture_pdp" -> {}

\* regions.py: the region keys and the locale of each; an entry point is
\* started with a region key, a direct call of capture_pdp has none
RegionKeys == {"UK", "CA_EN", "CA_FR", "DE", "FR"}
PlaywrightLocale(g) ==
    CASE g = "UK" -> "en-GB"
      [] g = "CA_EN" -> "en-CA"
      [] g = "CA_FR" -> "fr-CA"
      [] g = "DE" -> "de-DE"
      [] g = "FR" -> "fr-FR"
RegionsOf(caller) == IF caller \in EntryPoints THEN RegionKeys ELSE {"none"}

\* the locale of the browser context (capture.py, line 217)
ContextLocale == "en-GB"

\* Python binds the call only if every keyword names a parameter; otherwise
\* TypeError is raised before the body of the function runs
Accepts(kw) == kw \subseteq Params

\* out_root: the default "out" unless app.run_audit passes its run_root,
\* runs/<time>_<uuid>, taken here to be different for every run (app.py, 61)
RunRoots == <<"1730000000_5f0c2a11", "1730000000_9b7e44d3", "1730000001_00c1d2e3">>
OutRootOf(caller, r) ==
    IF caller = "run_audit" THEN <<"runs", RunRoots[r]>> ELSE <<OutRoot>>

KeyOrder == <<"full_page", "details_view", "care_view", "size_chart_view">>
StageOrder == <<"capture", "analyze", "build_pdf">>

\* run_audit.py lines 26-29, app.py lines 74-77: analyze, then build_pdf
AfterCapture(analysis, pdf) ==
    IF analysis # "ok"
    THEN [stages |-> <<"capture", "analyze">>, pdf |-> FALSE, error |-> "analyze"]
    ELSE IF pdf # "ok"
    THEN [stages |-> StageOrder, pdf |-> FALSE, error |-> "build_pdf"]
    ELSE [stages |-> StageOrder, pdf |-> TRUE, error |-> "none"]

SessionPath(r, k) ==
    PathsIn(OutRootOf(sessions[r].caller, r), sessions[r].url)[k]
SessionOutDir(r) == OutDirIn(OutRootOf(sessions[r].caller, r), sessions[r].url)
InFlight(r) == sessions[r].pc = "capturing"

InitRuns ==
    /\ CaptureInit
    /\ priorFiles = {}
    /\ NoLocate
    /\ sessions \in [RunIds -> UNION { { [NoSession EXCEPT !.caller = c, !.url = u,
                                                             !.region = g]
                                           : g \in RegionsOf(c) }
                                         : c \in Callers, u \in RunUrls }]

\* the caller calls capture_pdp; lines 203-213 allocate the directory and
\* lines 216-218 open the browser context
RunStart(r) ==
    /\ sessions[r].pc = "idle"
    /\ sessions' = [sessions EXCEPT ![r] =
           IF Accepts(CallKeywords(@.caller))
           THEN [@ EXCEPT !.pc = "capturing", !.stages = <<"capture">>,
                          !.locale = ContextLocale]
           ELSE [@ EXCEPT !.pc = "failed", !.error = "TypeError"]]
    /\ UNCHANGED <<captureVars, locateVars>>

\* the next screenshot call of capture_pdp (lines 253, 269/279, 303/313,
\* 343-348) writes the file of the next key, or an exception leaves the
\* function (launch, navigation, an unguarded screenshot)
RunCapture(r) ==
    /\ sessions[r].pc = "capturing"
    /\ Cardinality(sessions[r].written) < Len(KeyOrder)
    /\ \E o \in {"ok", "raises"} :
         sessions' = [sessions EXCEPT ![r] =
             IF o = "ok"
             THEN [@ EXCEPT !.written = @ \cup {KeyOrder[Cardinality(@) + 1]}]
             ELSE [@ EXCEPT !.pc = "failed", !.error = "capture"]]
    /\ UNCHANGED <<captureVars, locateVars>>

\* capture_pdp returns; an entry point goes on with analyze and build_pdf
RunReturn(r) ==
    /\ sessions[r].pc = "capturing"
    /\ Cardinality(sessions[r].written) = Len(KeyOrder)
    /\ \E analysis \in {"ok", "raises"}, pdf \in {"ok", "raises"} :
         LET tail == AfterCapture(analysis, pdf)
         IN  sessions' = [sessions EXCEPT ![r] =
                 IF @.caller \in EntryPoints
                 THEN [@ EXCEPT !.stages = tail.stages, !.pdf = tail.pdf,
                                !.error = tail.error, !.region_key = @.region,
                                !.pc = IF tail.error = "none" THEN "done" ELSE "failed"]
                 ELSE [@ EXCEPT !.pc = "done"]]
    /\ UNCHANGED <<captureVars, locateVars>>

NextRuns == \E r \in RunIds : RunStart(r) \/ RunCapture(r) \/ RunReturn(r)

SpecRuns == InitRuns /\ [][NextRuns]_vars

(***************************************************************************)
(* The section locator taken alone: _best_trigger (lines 195-199) on the   *)
(* elements of the page that match its selector list, and                  *)
(* _section_container_from_trigger (lines 76-104) on the ancestors of the  *)
(* trigger.                                                                *)
(***************************************************************************)
\* the four alternatives of the selector list, in the order they are written
TriggerKinds == <<"button", "summary", "role_button", "text">>
KindSet == {TriggerKinds[i] : i \in 1..Len(TriggerKinds)}
RECURSIVE SeqsUpTo(_, _)
SeqsUpTo(S, n) ==
    IF n = 0 THEN {<<>>}
    ELSE LET shorter == SeqsUpTo(S, n - 1)
         IN  shorter \cup { Append(q, x) : q \in shorter, x \in S }

\* elements matching "name", in document order, each by the alternative it matches
Docs == SeqsUpTo(KindSet, MaxMatches)

\* page.locator("a, b, c, d").first: a selector list matches the union of
\* its alternatives and .first is the first match in document order
BestTrigger(d) ==
    IF d = <<>> THEN [state |-> "not_found", at |-> 0]
    ELSE [state |-> "found", at |-> 1]

\* elements of an ancestor chain: tag, class attribute, rendered width
Widths == {120, 600, 900}
Element(t, c, w) == [tag |-> t, class |-> c, width |-> w]
AncestorElements ==
    { Element("div", c, w) : c \in {"", "accordion", "Accordion"}, w \in Widths }
    \cup { Element("section", "", w) : w \in Widths }
\* the trigger itself: a narrow label
TriggerElements == { Element("button", "", 120), Element("div", "", 120) }

\* chains of at most n ancestors, nearest first; an element is at least as
\* wide as the elements inside it
RECURSIVE WideningChains(_)
WideningChains(n) ==
    IF n = 0 THEN {<<>>}
    ELSE LET shorter == WideningChains(n - 1)
         IN  shorter \cup
             UNION { { Append(c, e) : e \in { a \in AncestorElements :
                                                 c = <<>> \/ c[Len(c)].width <= a.width } }
                     : c \in shorter }

\* the trigger followed by its ancestors
Ancestries ==
    { <<t>> \o a : t \in TriggerElements, a \in WideningChains(MaxDepth) }

\* the index of the n-th element of the chain, nearest first, that has the
\* tag and whose class attribute contains cls; 0 if there is none (XPath
\* ancestor-or-self::tag[contains(@class, cls)][n]; contains is case-sensitive)
ClassContains(c, cls) ==
    cls = "" \/ c = cls
NthAncestorOrSelf(chain, tag, cls, n) ==
    LET hits == SelectSeq([i \in 1..Len(chain) |-> i],
                          LAMBDA i : chain[i].tag = tag /\ ClassContains(chain[i].class, cls))
    IN  IF Len(hits) >= n THEN hits[n] ELSE 0

\* lines 84-91: the six candidate locators, as indices into the chain
CandidateIndices(chain) ==
    << NthAncestorOrSelf(chain, "section", "", 1),
       NthAncestorOrSelf(chain, "div", "accordion", 1),
       NthAncestorOrSelf(chain, "div", "Accordion", 1),
       NthAncestorOrSelf(chain, "div", "", 1),
       NthAncestorOrSelf(chain, "div", "", 2),
       NthAncestorOrSelf(chain, "div", "", 3) >>

\* lines 92-102: the first candidate that exists and is at least 600 wide,
\* else the trigger itself
RECURSIVE FirstWideCandidate(_, _, _)
FirstWideCandidate(chain, cands, i) ==
    IF i > Len(cands) THEN [state |-> "trigger", at |-> 1]
    ELSE IF cands[i] = 0 THEN FirstWideCandidate(chain, cands, i + 1)
    ELSE IF chain[cands[i]].width >= MinContainerWidth
         THEN [state |-> "ancestor", at |-> cands[i]]
    ELSE FirstWideCandidate(chain, cands, i + 1)

SectionContainer(chain) == FirstWideCandidate(chain, CandidateIndices(chain), 1)

\* _best_trigger(page, name)
LocateTrigger ==
    /\ trigger = NoTrigger
    /\ trigger' = BestTrigger(doc)
    /\ UNCHANGED <<captureVars, sessions, doc, ancestry, container>>

InitTrigger ==
    /\ CaptureInit
    /\ priorFiles = {}
    /\ NoRuns
    /\ doc \in Docs
    /\ ancestry = <<>>
    /\ trigger = NoTrigger
    /\ container = NoContainer

NextTrigger == LocateTrigger

SpecTrigger == InitTrigger /\ [][NextTrigger]_vars

\* _section_container_from_trigger(trigger), called when trigger.count() > 0
LocateContainer ==
    /\ trigger.state = "found"
    /\ container = NoContainer
    /\ container' = SectionContainer(ancestry)
    /\ UNCHANGED <<captureVars, sessions, doc, ancestry, trigger>>

InitContainer ==
    /\ CaptureInit
    /\ priorFiles = {}
    /\ NoRuns
    /\ doc \in { <<k>> : k \in KindSet }
    /\ trigger = BestTrigger(doc)
    /\ ancestry \in Ancestries
    /\ container = NoContainer

NextContainer == LocateContainer

SpecContainer == InitContainer /\ [][NextContainer]_vars

(***************************************************************************)
(* Properties.                                                             *)
(***************************************************************************)
\* the screenshot keys the analysis stage reads from the bundle (analyze.py,
\* line 39) and offers as evidence_screenshot (line 56), and those the
\* report stage reads (report_pdf.py, lines 58 and 66-67)
ImageKeys == {"full_page", "care_view", "size_fit_view", "size_chart_view"}
EvidenceKeys == {"full_page", "care_view", "size_fit_view", "size_chart_view"}
ReportKeys == {"full_page", "care_view", "size_chart_view"}

\* analyze.py, lines 41-44: the images attached to the request are those of
\* the keys read whose path is in the bundle and whose file exists
AnalysisImages(b, existing) ==
    { k \in ImageKeys : k \in DOMAIN b.paths /\ k \in existing }

LaunchOrNavigation == LaunchSteps \cup {"goto"}
DismissPcs == {"dismiss_close", "dismiss_cta", "dismiss_escape", "dismiss_check",
               "dismiss_remove", "dismiss_return"}
MinHOf(k) == IF k = "size_chart_view" THEN DialogMinH ELSE SectionMinH
MaxHOf(k) == IF k = "size_chart_view" THEN DialogMaxH ELSE SectionMaxH

\* C1: when capture_pdp returns, the bundle's paths mapping has every key of
\* the fixed set, and the file of every key has been written by a successful
\* screenshot call of this run.
C1_AllKeysWritten ==
    pc = "returned" =>
        /\ DOMAIN bundle.paths = Keys
        /\ \A k \in Keys :
             /\ bundle.paths[k] = Paths(url)[k]
             /\ written[k] >= 1
             /\ k \in files

\* a returned run with no Details trigger whose size-chart clip attempt failed
\* at the screenshot call
C1_Witness ==
    /\ pc = "returned"
    /\ ~trig["Details"]
    /\ dialogs > 0
    /\ lastClip.key = "size_chart_view"
    /\ mode["size_chart_view"] = "viewport"

\* C2: when capture_pdp returns, exactly one screenshot call has succeeded
\* for each key: the full-page call for full_page, and for a section key
\* either the clipped call or the viewport call, never both and never none.
C2_EachKeyExactlyOnce ==
    pc = "returned" =>
        \A k \in Keys :
            /\ written[k] = 1
            /\ mode[k] \in (IF k = "full_page" THEN {"full_page"}
                            ELSE {"clip", "viewport"})

C2_Witness ==
    /\ pc = "returned"
    /\ mode["details_view"] = "clip"
    /\ mode["care_view"] = "viewport"
    /\ mode["size_chart_view"] = "clip"

\* C3: whenever control has left capture_pdp after the browser was launched,
\* by return or by an exception of any step, the browser is closed.
C3_BrowserClosedOnExit ==
    (pc = "returned" \/ (pc = "raised" /\ error.step \notin {"sync_playwright", "launch"}))
        => browser = "closed"

C3_Witness ==
    /\ pc = "raised"
    /\ error.step = "shot_viewport"
    /\ browser = "closed"

\* C4: an exception leaves capture_pdp only from starting the browser or from
\* navigation; the failure of any other step is handled locally.
C4_OnlyLaunchAndNavigationPropagate ==
    pc = "raised" => error.step \in LaunchOrNavigation

C6_NoTriggerStillCaptured ==
    \A s \in Sections :
        ~trig[s] =>
            /\ ~(pc = "raised" /\ error.key = SectionKey(s))
            /\ written[SectionKey(s)] > 0 => mode[SectionKey(s)] = "viewport"
            /\ pc = "returned" => written[SectionKey(s)] = 1

\* C7: when the size-chart click opened a dialog, that dialog is still on the
\* page when the size chart view is captured: the dismiss_overlays call
\* between the click and the capture has not closed or removed it.
C7_SizeDialogSurvivesSuppression ==
    (pc = "size_chart_view" /\ sizeOpened) => sizeDialog

\* C8: no exception ever leaves dismiss_overlays, whatever the page shows and
\* whichever of its internal calls raise.
C8_DismissOverlaysNeverRaises ==
    /\ ~(pc = "raised" /\ error.step = "dismiss_overlays")
    /\ pc \in DismissPcs => error = NoError

\* the first dismiss_overlays call returned with the stacked dialogs still there
C8_Witness ==
    /\ pc = "show_more"
    /\ dialogs = MaxDialogs
    /\ error = NoError

\* C9: every clip region handed to page.screenshot has x >= 0, y >= 0 and a
\* height within [min_h, max_h] of its call site.
C9_ClipWithinBounds ==
    lastClip # NoClip =>
        /\ lastClip.x >= 0
        /\ lastClip.y >= 0
        /\ lastClip.height >= MinHOf(lastClip.key)
        /\ lastClip.height <= MaxHOf(lastClip.key)

\* a clip computed from a zero-height box at negative coordinates
C9_Witness ==
    /\ lastClip.key = "details_view"
    /\ lastClip.x = 0
    /\ lastClip.y = 0
    /\ lastClip.height = SectionMinH

\* C10: the visible_text of a returned bundle is a string of at most 12000
\* characters, and the empty string when inner_text raised or yielded
\* nothing.
C10_VisibleTextCapped ==
    pc = "returned" =>
        /\ bundle.visible_text.kind = "str"
        /\ bundle.visible_text.len <= TextCap
        /\ (inner_text.raised \/ inner_text.text.none \/ inner_text.text.core = 0)
              => bundle.visible_text = Str(0)

C10_Witness ==
    /\ pc = "returned"
    /\ inner_text.text.core > TextCap
    /\ bundle.visible_text = Str(TextCap)

(***************************************************************************)
(* The statements of capture_pdp in program order, and the place of the    *)
(* control state in that order: a running dismiss_overlays call sits just   *)
(* before the statement it returns to.                                     *)
(***************************************************************************)
StepOrder ==
    <<"start", "launch", "goto", "show_more", "expand_details", "settle",
      "baseline", "visible_text", "details_view", "care_expand", "care_view",
      "scroll_top", "size_chart_open", "size_chart_view", "browser_close",
      "exit", "returned">>

StepIndex ==
    [x \in {StepOrder[i] : i \in 1..Len(StepOrder)} |->
        CHOOSE i \in 1..Len(StepOrder) : StepOrder[i] = x]
IndexOf(x) == StepIndex[x]
PositionOf(p, r) == IF p \in DismissPcs THEN 2 * IndexOf(r) - 1 ELSE 2 * IndexOf(p)
Position == PositionOf(pc, ret)

\* the phase of the run at a position
PhaseOf(n) ==
    IF n <= PositionOf("goto", "none") THEN "Init"
    ELSE IF n < PositionOf("show_more", "none") THEN "Navigated"
    ELSE IF n <= PositionOf("settle", "none") THEN "OverlaysSuppressed"
    ELSE IF n = PositionOf("baseline", "none") THEN "BaselineExpanded"
    ELSE IF n = PositionOf("visible_text", "none") THEN "BaselineCaptured"
    ELSE IF n <= PositionOf("browser_close", "none") THEN "PerSection"
    ELSE "Closed"
PhaseRank(ph) ==
    CASE ph = "Init" -> 1
      [] ph = "Navigated" -> 2
      [] ph = "OverlaysSuppressed" -> 3
      [] ph = "BaselineExpanded" -> 4
      [] ph = "BaselineCaptured" -> 5
      [] ph = "PerSection" -> 6
      [] ph = "Closed" -> 7
\* the rank of the phase at each position
PhaseRankAt == [n \in 1..(2 * Len(StepOrder)) |-> PhaseRank(PhaseOf(n))]

\* the statement that locates and expands (clicks) the trigger of a section,
\* and the one that captures its view
ExpandPc(s) ==
    CASE s = "Details" -> "expand_details"
      [] s = "Care" -> "care_expand"
      [] s = "SizeChart" -> "size_chart_open"
CapturePcs(s) ==
    CASE s = "Details" -> {"details_view"}
      [] s = "Care" -> {"care_expand", "care_view"}
      [] s = "SizeChart" -> {"size_chart_open", "size_chart_view"}

\* position in the loop of dismiss_overlays
LoopStep(p) ==
    CASE p = "dismiss_close" -> 1
      [] p = "dismiss_cta" -> 2
      [] p = "dismiss_escape" -> 3
      [] p = "dismiss_check" -> 4
      [] p = "dismiss_remove" -> 5
      [] p = "dismiss_return" -> 6
LoopRank(p, n) == 6 * n + LoopStep(p)

\* C12: run_id, out_dir, shots_dir and the paths are a function of url and
\* out_root only: from allocation on, whatever the page shows and whichever
\* step fails, paths is the same mapping computed from the url; it is there
\* before the browser is launched, no later step changes it, and the returned
\* bundle carries these values.
C12_PathsFunctionOfUrl ==
    /\ [](pc # "start" =>
            paths = [k \in Keys |-> <<OutRoot, sha8(url), "screenshots", FileName(k)>>])
    /\ [](browser # "none" => DOMAIN paths = Keys)
    /\ [](pc = "returned" =>
            /\ bundle.url = url
            /\ bundle.run_id = sha8(url)
            /\ bundle.out_dir = <<OutRoot, sha8(url)>>
            /\ bundle.shots_dir = <<OutRoot, sha8(url), "screenshots">>
            /\ bundle.paths = paths)
    /\ [][pc # "start" => (paths' = paths /\ url' = url)]_vars

\* a run over an existing directory that failed at the baseline screenshot
C12_Witness ==
    /\ pc = "raised"
    /\ error.step = "screenshot"
    /\ priorFiles = Keys
    /\ paths = Paths(url)

\* C14: dismiss_overlays runs at most 3 passes and every step of a call takes
\* it further towards its return; a further pass is started only after a pass
\* in which something was clicked, and a pass in which nothing was clicked is
\* the last one.
C14_AtMostThreePassesContinueOnlyAfterClick ==
    /\ [](pc \in DismissPcs => pass \in 0..(MaxPasses - 1))
    /\ [][(pc = "dismiss_check" /\ pc' = "dismiss_close")
            => (dismissed /\ pass' = pass + 1 /\ ret' = ret)]_vars
    /\ [][(pc = "dismiss_check" /\ ~dismissed)
            => pc' \in {"dismiss_remove", "dismiss_return"}]_vars
    /\ [][(pc \in DismissPcs /\ pc' \in DismissPcs)
            => LoopRank(pc', pass') > LoopRank(pc, pass)]_vars
    /\ [][pc = "dismiss_return" => pc' = ret]_vars

\* three passes, something clicked in each, and dialogs still on the page
C14_Witness ==
    /\ pc = "dismiss_return"
    /\ pass = MaxPasses - 1
    /\ dismissed
    /\ dialogs > 0

C16_RemovalOnlyAfterIdlePassWithDialog ==
    /\ [](pc = "dismiss_remove" => (~dismissed /\ (dialogs > 0 \/ sizeDialog)))
    /\ [](lastResort \in {"has_dialog", "removed", "evaluate_raised"} => ~dismissed)
    /\ [][(lastResort' \in {"removed", "evaluate_raised"} /\ lastResort' # lastResort)
            => (pc = "dismiss_remove" /\ ~dismissed /\ (dialogs > 0 \/ sizeDialog))]_vars
    /\ [][(pc' = "dismiss_remove" /\ pc # "dismiss_remove")
            => (pc = "dismiss_check" /\ ~dismissed /\ (dialogs > 0 \/ sizeDialog)
                /\ dialogs' = dialogs /\ sizeDialog' = sizeDialog)]_vars
    /\ [][(pc \in DismissPcs /\ pc # "dismiss_remove"
           /\ (dismissed \/ (dialogs = 0 /\ ~sizeDialog)))
            => lastResort' \notin {"removed", "evaluate_raised"}]_vars

\* the second pass clicked nothing and the script removed a dialog
C16_Witness ==
    /\ pc = "dismiss_return"
    /\ pass = 1
    /\ lastResort = "removed"
    /\ ret = "size_chart_view"

\* C19 as stated: the phases follow one another in order, the locate/expand
\* step of every section comes after the baseline capture, and the browser
\* is closed, in a run that did not fail, only after the last section capture.
C19_SectionStepsAfterBaseline ==
    /\ \A s \in Sections : pc = ExpandPc(s) => written["full_page"] = 1
    /\ (browser = "closed" /\ pc # "raised") =>
           \A s \in Sections : written[SectionKey(s)] = 1

\* C19 as amended: the control state never moves back in program order, so
\* the phases follow one another in order; the Details trigger is located
\* and expanded before the baseline capture, the locate/expand step of Care
\* and of the size chart comes after it, directly after a dismiss_overlays
\* call; every section capture comes after the baseline capture and not
\* before the section's locate/expand step; and browser.close() is reached
\* only after the last section capture.
C19_PhasesInOrder ==
    /\ [][pc' # "raised" =>
            /\ PositionOf(pc', ret') >= Position
            /\ pc \notin DismissPcs => PositionOf(pc', ret') > Position
            /\ PhaseRankAt[PositionOf(pc', ret')] >= PhaseRankAt[Position]]_vars
    /\ [](pc = ExpandPc("Details") => written["full_page"] = 0)
    /\ [](\A s \in {"Care", "SizeChart"} : pc = ExpandPc(s) => written["full_page"] = 1)
    /\ [][\A s \in {"Care", "SizeChart"} :
            (pc' = ExpandPc(s)) => (pc = "dismiss_return" /\ ret = ExpandPc(s))]_vars
    /\ [][pc' = "details_view" => (pc = "dismiss_return" /\ ret = "details_view")]_vars
    /\ [][\A s \in Sections :
            written'[SectionKey(s)] # written[SectionKey(s)]
                => (pc \in CapturePcs(s) /\ written["full_page"] = 1
                    /\ Position >= PositionOf(ExpandPc(s), "none"))]_vars
    /\ []((pc \in {"browser_close", "exit", "returned"}) =>
            \A s \in Sections : written[SectionKey(s)] = 1)
    /\ []((browser = "closed" /\ pc # "raised") => pc \in {"exit", "returned"})

\* a returned run on a page that has every trigger and opened a size dialog
C19_Witness ==
    /\ pc = "returned"
    /\ \A s \in Sections : trig[s]
    /\ sizeOpened
    /\ browser = "closed"

\* C20: the full_page file is written by the full-document screenshot only,
\* at the baseline statement, which is reached through the show-more attempt,
\* the Details expand attempt and the settle wait, in that order; no section
\* view has been captured by then.
C20_BaselineFullDocumentAfterExpansion ==
    /\ [](written["full_page"] >= 1 => mode["full_page"] = "full_page")
    /\ [][written'["full_page"] # written["full_page"]
            => (pc = "baseline" /\ written["full_page"] = 0
                /\ \A s \in Sections : written[SectionKey(s)] = 0)]_vars
    /\ [][pc' = "baseline" => pc = "settle"]_vars
    /\ [][pc' = "settle" => (pc = "dismiss_return" /\ ret = "settle")]_vars
    /\ [][(ret' = "settle" /\ ret # "settle") => pc = "expand_details"]_vars
    /\ [][pc' = "expand_details" => pc = "show_more"]_vars
    /\ []((pc # "raised" /\ Position <= PositionOf("baseline", "none"))
            => \A s \in Sections : written[SectionKey(s)] = 0)

\* the baseline has been taken while overlays were still on the page
C20_Witness ==
    /\ pc = "visible_text"
    /\ mode["full_page"] = "full_page"
    /\ written["full_page"] = 1
    /\ dialogs = MaxDialogs

\* C11: two runs in flight at the same time, whatever their urls and callers,
\* have different output directories and have written no file path in common.
C11_RunsNeverShareAPath ==
    \A r1 \in RunIds, r2 \in RunIds :
        (r1 # r2 /\ InFlight(r1) /\ InFlight(r2)) =>
            /\ SessionOutDir(r1) # SessionOutDir(r2)
            /\ { SessionPath(r1, k) : k \in sessions[r1].written }
                 \cap { SessionPath(r2, k) : k \in sessions[r2].written } = {}

C17_TriggerChosenByPriority ==
    trigger.state # "unset" =>
        IF doc = <<>> THEN trigger.state = "not_found"
        ELSE LET rank(k) == CHOOSE i \in 1..Len(TriggerKinds) : TriggerKinds[i] = k
             IN  /\ trigger.state = "found"
                 /\ \A j \in 1..Len(doc) : rank(doc[trigger.at]) <= rank(doc[j])

\* C18: when some ancestor of the trigger is wider than the threshold, the
\* container returned is the nearest such ancestor, walking outward from the
\* trigger, and never the trigger itself.
C18_NearestWideAncestor ==
    container.state # "unset" =>
        LET wide == { i \in 2..Len(ancestry) : ancestry[i].width > MinContainerWidth }
        IN  wide # {} =>
               /\ container.state = "ancestor"
               /\ \A i \in wide : container.at <= i
               /\ container.at \in wide


C22_FallbackDoesNotScroll ==
    lastFallback.key # "none" => ~lastFallback.scrolled


(***************************************************************************)
(* C23: the width of every clip region handed to the screenshot call, like *)
(* its height, lies in a bounded range: it is at least the minimum side    *)
(* and at most the maximum of the section's range.                         *)
(***************************************************************************)
C23_ClipWidthBounded ==
    lastClip # NoClip =>
        /\ lastClip.width >= MinClipSide
        /\ lastClip.width <= MaxHOf(lastClip.key)


(***************************************************************************)
(* C24: one artifact-key profile is used by the whole pipeline: the keys   *)
(* of the returned bundle are one of the two fixed 4-key sets, every key   *)
(* the analysis stage reads or offers as evidence and every key the report *)
(* stage reads is a key of the bundle, and every key of the bundle, hence  *)
(* every screenshot written, is known to the analysis.                     *)
(***************************************************************************)
C24_SingleKeyProfile ==
    pc = "returned" =>
        LET produced == DOMAIN bundle.paths
        IN  /\ produced \in {{"full_page", "details_view", "care_view", "size_chart_view"},
                             {"full_page", "care_view", "size_fit_view", "size_chart_view"}}
            /\ ImageKeys \subseteq produced
            /\ EvidenceKeys \subseteq produced
            /\ ReportKeys \subseteq produced
            /\ produced \subseteq ImageKeys
            /\ AnalysisImages(bundle, files) = files


(***************************************************************************)
(* C25: a run started from an entry point, with any region key, passes the *)
(* region's locale to capture_pdp and the call is accepted: the run never  *)
(* fails with a TypeError before the body of capture_pdp, the browser      *)
(* context uses the locale of the region, and when the run is done the     *)
(* region key is attached to the bundle.                                   *)
(***************************************************************************)
C25_EntryPointCallAccepted ==
    \A r \in RunIds :
        (sessions[r].caller \in EntryPoints /\ sessions[r].pc # "idle") =>
            /\ sessions[r].error # "TypeError"
            /\ sessions[r].stages # <<>>
            /\ sessions[r].locale = PlaywrightLocale(sessions[r].region)
            /\ sessions[r].pc = "done" => sessions[r].region_key = sessions[r].region

=============================================================================
